---- MODULE Spec2Model ----
(***************************************************************************)
(* The walk control loop of experiments/placo/bdx_walk.py.                 *)
(*                                                                         *)
(* Times are integers in milliseconds: DT = 0.01 s is 10, and one IK       *)
(* sub-step DT / REFINE is 1.  Lengths are millimetres, ratios percent.    *)
(* One control tick (one pass through the body of `while True`) is one     *)
(* action.                                                                 *)
(*                                                                         *)
(* The specifications run the same loop body from the same initial state:  *)
(*   Spec       the first MaxTicks ticks, with every input free;           *)
(*   SpecWalk   the run until planning time MaxT, in which the robot       *)
(*              stands on both feet during the warm-up (t < 0) and no key  *)
(*              is held;                                                   *)
(*   SpecCommand  the same run with the key free and both feet down;       *)
(*   SpecIK     the first MaxTicks ticks with a solver that may fail;      *)
(*   SpecCancel the first MaxTicks ticks with an external interrupt;       *)
(*   SpecPacing the loop together with the wall clock it is paced by.      *)
(* SpecImu and SpecImuCalls run the ImuDelaySimulator of                   *)
(* experiments/mujoco/onnx_AMP_mujoco.py, and SpecPlanner the footstep     *)
(* planner on its own.                                                     *)
(***************************************************************************)
EXTENDS Integers, Sequences, FiniteSets, TLC

\* ------------------------------------------------------------ bounds
\* Spec follows the loop for this many ticks.
MaxTicks == 24
\* SpecWalk follows the loop until planning time MaxT [ms].
MaxT == 420
\* The contact sensor reports a foot off the ground for at most this many
\* consecutive ticks.
MaxNoContact == 22
\* walk.can_replan_supports refuses a replan outside the last support at most
\* this many times.
MaxRefusals == 1
\* SpecPacing follows the loop until planning time MaxPacedT [ms].
MaxPacedT == 130
\* One pass through the loop body takes at most MaxTickTime ms of wall clock,
\* and one time.sleep(1e-5) returns after at most MaxSleep ms.
MaxTickTime == 12
MaxSleep == 3
\* The delay simulator is followed for MaxPushes pushes and until its clock
\* reads MaxImuTime.
MaxPushes == 4
MaxImuTime == 7
\* The footstep planner on its own is configured with up to MaxSteps steps.
MaxSteps == 7
\* An episode of a learning environment is followed for MaxEnvSteps steps, and
\* the environment is reset MaxResets times.
MaxEnvSteps == 200
MaxResets == 1
\* A directory of models lists at most MaxModels files.
MaxModels == 3
\* The policy loop is followed for MaxIters passes.
MaxIters == 20
\* The recorder is followed until data.time reads MaxRecTime [ms], for
\* MaxKeys presses of Enter.
MaxRecTime == 16
MaxKeys == 3

\* --------------------------------------------------- program constants
DT == 10
REFINE == 10
replan_timesteps == 10
single_support_duration == 200
single_support_timesteps == 10
initial_delay == -1000
\* the literal of `if t < -2`
warmup_end == -2000
\* double_support_ratio = 0.2 and startend_double_support_ratio = 1.5
double_support_ratio == 20
startend_double_support_ratio == 150
\* d_x = 0.1, nb_steps = 5, and d_x = 0.05 while a key is held
d_x_initial == 100
nb_steps_initial == 5
d_x_key == 50

\* parameters.dt(): the planning timestep, single_support_duration /
\* single_support_timesteps (0.02 s)
ParametersDt == single_support_duration \div single_support_timesteps

\* parameters.has_double_support()
has_double_support == double_support_ratio > 0

Modes == {"pybullet", "meshcat", "robot", "mujoco"}
Sides == {"left", "right"}
Undefined == "undefined"

Other(side) == IF side = "left" THEN "right" ELSE "left"

\* x > y in binary64, for x a sum of DT increments and y a literal, both given
\* by their nominal values in ms.  When the nominal values are equal the
\* rounding error of the sum decides: 0.0 + 20 * 0.01 is 0.20000000000000004
\* and -1.0 + 120 * 0.01 is 0.2000000000000008, both above 0.2, and so is every
\* difference of two planning times 20 ticks apart for t < 1.8 s.
Binary64SumGt(x, y) == x >= y

VARIABLES
    mode,                           \* args: the run mode selected
    pc,                             \* "running", or "crashed" after an uncaught exception
    t,                              \* planning time
    last_replan,
    petage_de_gueule,
    got_input,
    d_x, d_y, d_theta, nb_steps,    \* the command
    planner_cfg,                    \* what repetitive_footsteps_planner was last configured with
    supports,
    trajectory,
    task_target,                    \* the pose targets held by the walk tasks
    robot_q,                        \* robot.state: the joint angles
    sent,                           \* the last mapping handed to the actuator interface
    time_since_last_left_contact,
    time_since_last_right_contact,
    \* history, read by the properties and the bounds only
    ticks,                          \* control ticks completed
    missed,                         \* per side: consecutive ticks without contact
    replans,                        \* replans performed
    refusals,                       \* replans refused outside the last support
    last,                           \* what the last tick did
    \* the wall clock of the walk loop, which only SpecPacing follows
    pacing,
    \* the ImuDelaySimulator of experiments/mujoco/onnx_AMP_mujoco.py
    imu,
    \* the footstep planner called on its own: its configuration and its
    \* last plan() call
    planner_call,
    \* BDXEnv of experiments/RL/new/footsteps_env.py
    footsteps_env,
    \* BDXEnv of experiments/RL/new/env.py
    env,
    \* test() of experiments/RL/new/eval.py
    eval_run,
    \* the control loop of experiments/mujoco/onnx_AMP_mujoco.py
    policy_loop,
    \* experiments/LeRobot/record_episodes_hdf5.py
    recorder

vars == <<mode, pc, t, last_replan, petage_de_gueule, got_input, d_x, d_y, d_theta,
          nb_steps, planner_cfg, supports, trajectory, task_target, robot_q, sent,
          time_since_last_left_contact, time_since_last_right_contact,
          ticks, missed, replans, refusals, last, pacing, imu, planner_call,
          footsteps_env, env, eval_run, policy_loop, recorder>>

\* the programs other than the walk loop, the delay simulator and the planner
other_programs == <<footsteps_env, env, eval_run, policy_loop, recorder>>

\* ------------------------------------------------------------------
\* The footstep planner, the supports and the trajectory (placo), as the
\* specification describes them.  Footsteps are given by their sides; a
\* support is [side, dur, start, end] with side "left", "right" or "both".
closing_steps == 1

RECURSIVE AlternatingSides(_, _)
AlternatingSides(first, n) ==
    IF n = 0 THEN <<>> ELSE <<first>> \o AlternatingSides(Other(first), n - 1)

\* a plan that starts on the starting side
FootstepsPlan_StartingSide(cfg, starting_side) ==
    AlternatingSides(starting_side, cfg.nb_steps + closing_steps)

\* repetitive_footsteps_planner.plan(starting_side, T_world_left, T_world_right)
FootstepsPlan(cfg, starting_side) ==
    AlternatingSides(Other(starting_side), cfg.nb_steps + closing_steps)

SingleSupport(side) ==
    [side |-> side, dur |-> single_support_duration, start |-> FALSE, end |-> FALSE]

DoubleSupport ==
    [side |-> "both", dur |-> (double_support_ratio * single_support_duration) \div 100,
     start |-> FALSE, end |-> FALSE]

StartSupport ==
    [side |-> "both", dur |-> (startend_double_support_ratio * single_support_duration) \div 100,
     start |-> TRUE, end |-> FALSE]

EndSupport ==
    [side |-> "both", dur |-> (startend_double_support_ratio * single_support_duration) \div 100,
     start |-> FALSE, end |-> TRUE]

RECURSIVE MiddleSupports(_, _)
MiddleSupports(footsteps, double) ==
    IF footsteps = <<>> THEN <<>>
    ELSE <<SingleSupport(Head(footsteps))>>
         \o (IF double /\ Len(footsteps) > 1 THEN <<DoubleSupport>> ELSE <<>>)
         \o MiddleSupports(Tail(footsteps), double)

\* placo.FootstepsPlanner.make_supports(footsteps, start, double_supports, end)
make_supports(footsteps, start, double, end) ==
    (IF start THEN <<StartSupport>> ELSE <<>>)
    \o MiddleSupports(footsteps, double)
    \o (IF end THEN <<EndSupport>> ELSE <<>>)

RECURSIVE DurationBefore(_, _)
DurationBefore(sups, i) ==
    IF i <= 1 THEN 0 ELSE sups[i - 1].dur + DurationBefore(sups, i - 1)

\* walk.plan(supports, com, t_start)
walk_plan(sups, t_start) ==
    [planned_at |-> t_start, t_start |-> t_start,
     t_end |-> t_start + DurationBefore(sups, Len(sups) + 1), supports |-> sups]

RECURSIVE IndexFrom(_, _, _, _)
IndexFrom(sups, i, begin, tau) ==
    IF i = Len(sups) \/ tau < begin + sups[i].dur THEN i
    ELSE IndexFrom(sups, i + 1, begin + sups[i].dur, tau)

\* the index of the support that covers time tau (the first before the
\* trajectory starts, the last after it ends)
SupportIndexAt(traj, tau) == IndexFrom(traj.supports, 1, traj.t_start, tau)

SupportStart(traj, i) == traj.t_start + DurationBefore(traj.supports, i)

\* trajectory.support_side(t), "both" in double support (trajectory.support_is_both(t))
support_side(traj, tau) == traj.supports[SupportIndexAt(traj, tau)].side

\* walk.can_replan_supports(trajectory, t) as the specification states it:
\* false inside the last committed support
can_replan_supports(traj, tau) == SupportIndexAt(traj, tau) # Len(traj.supports)

\* what the library may answer: it may also refuse where the specification
\* names no reason
CanReplanOutcomes(traj, tau) == {can_replan_supports(traj, tau), FALSE}

\* walk.replan_supports(planner, trajectory, t): the support in progress is
\* kept, the footsteps after it are planned again with the planner's command.
replan_supports(cfg, traj, tau) ==
    LET i == SupportIndexAt(traj, tau)
        cur == traj.supports[i]
        nxt == traj.supports[i + 1]
        starting_side ==
            IF cur.side # "both" THEN cur.side
            ELSE IF nxt.side # "both" THEN Other(nxt.side) ELSE "left"
    IN  <<cur>>
        \o (IF cur.side # "both" /\ has_double_support THEN <<DoubleSupport>> ELSE <<>>)
        \o make_supports(FootstepsPlan(cfg, starting_side), FALSE, has_double_support, TRUE)

\* walk.replan(supports, trajectory, t)
replan(sups, traj, tau) ==
    LET begin == SupportStart(traj, SupportIndexAt(traj, tau))
    IN  [planned_at |-> tau, t_start |-> begin,
         t_end |-> begin + DurationBefore(sups, Len(sups) + 1), supports |-> sups]

\* The pose targets a trajectory gives at time tau: constant before its start
\* and after its end.
TrajectoryPose(traj, tau) ==
    [plan |-> traj.planned_at,
     at |-> IF tau < traj.t_start THEN traj.t_start
            ELSE IF tau > traj.t_end THEN traj.t_end ELSE tau]

\* tasks.update_tasks_from_trajectory(trajectory, tau)
update_tasks_from_trajectory(traj, tau) == TrajectoryPose(traj, tau)

\* ------------------------------------------------------------------
\* The kinematics solver (placo.KinematicsSolver).  The robot state is the
\* pose it is converging to and the solver steps still missing: one step on a
\* new target leaves a residual that the following steps remove.
solver_residual == 1

\* solver.solve(True): one step towards the task targets, applied to the robot
solve(q, target) ==
    IF q.pose = target
    THEN [pose |-> q.pose, err |-> IF q.err > 0 THEN q.err - 1 ELSE 0]
    ELSE [pose |-> target, err |-> solver_residual]

\* ------------------------------------------------------------------
\* The control loop.
InitialPose == [plan |-> 0, at |-> 0]

\* start_t = time.time(): now is the wall clock less start_t, in ms; pc is
\* "tick" at the top of the loop body and "wait" in the pacing loop; slept
\* tells whether the wait in progress has slept
PacingInit == [pc |-> "tick", now |-> 0, slept |-> FALSE]

\* placo.FootstepsPlannerRepetitive(parameters) configured as at line 146,
\* plan() not called yet
PlannerInit ==
    [cfg |-> [d_x |-> d_x_initial, d_y |-> 0, d_theta |-> 0, nb_steps |-> nb_steps_initial],
     called |-> FALSE, starting_side |-> "left", nb_steps |-> 0, footsteps |-> <<>>]

\* Python's None where a time is expected; a time tt is held as <<tt>>
None == <<>>

\* ImuDelaySimulator.__init__: both queues empty, t0 = None.  now is
\* time.time() in ImuTick units; pushed and returned record what went in and
\* came out and when, result what the last get() did, and pc is "pushed"
\* between the two calls of get_obs
ImuInit == [rot |-> <<>>, ang_rot |-> <<>>, t0 |-> None,
            now |-> 0, pushed |-> <<>>, returned |-> <<>>, pc |-> "idle",
            result |-> [kind |-> "none"]]

\* ------------------------------------------------------------------
\* BDXEnv of experiments/RL/new/footsteps_env.py.  Times are milliseconds of
\* simulated time (data.time); a joint position is that of one representative
\* joint, in hundredths of a radian.

FRAME_SKIP == 4

\* model.opt.timestep of scene.xml: render_fps = 125 is 1 / (FRAME_SKIP *
\* timestep), which MujocoEnv asserts
timestep == 2

\* self.init_pos and delta_max = 0.05
init_pos == 53
delta_max == 5

\* the deltas an agent may ask for
Actions == {-10, 0, 10}

\* the contact forces and the foot speeds (their norms) the simulator may show
ContactForces == {0, 5}
FootSpeeds == {0, 3}

\* PlacoWalkEngine.initial_delay
pwe_initial_delay == -1000

\* a Python str and a member of the enumeration placo.HumanoidRobot_Side
Str(v) == [type |-> "str", v |-> v]
HumanoidRobot_Side(v) == [type |-> "HumanoidRobot_Side", v |-> v]

\* a Python float and Python's None as a returned value
Float(x) == [type |-> "float", value |-> x]
NoValue == [type |-> "NoneType", value |-> 0]

\* the trajectory the walk engine follows
PweTrajectory ==
    walk_plan(make_supports(FootstepsPlan(PlannerInit.cfg, "left"),
                            TRUE, has_double_support, TRUE), 0)

\* PlacoWalkEngine.get_current_support_phase(): "both" in double support, and
\* otherwise the side of the support foot
get_current_support_phase(pwe) ==
    LET side == support_side(PweTrajectory, pwe.t)
    IN  IF side = "both" THEN Str("both") ELSE HumanoidRobot_Side(side)

\* PlacoWalkEngine.tick(dt)
pwe_tick(pwe, dt) == [t |-> pwe.t + dt, ticks |-> pwe.ticks + 1]

\* PlacoWalkEngine.reset()
pwe_reset == [t |-> 0, ticks |-> 0]

\* gait_reward without the branch of the right support
gait_reward_NoRight(support_phase, right_contact_force, left_contact_force, right_speed, left_speed) ==
    IF support_phase = Str("both")
    THEN Float(right_contact_force + left_contact_force - right_speed - left_speed)
    ELSE IF support_phase = HumanoidRobot_Side("left")
    THEN Float(left_contact_force - left_speed + right_contact_force + right_speed)
    ELSE NoValue

\* BDXEnv.gait_reward(): `==` against the str "both", `is` against the two
\* members of the enumeration, and no else branch
gait_reward(support_phase, right_contact_force, left_contact_force, right_speed, left_speed) ==
    IF support_phase = Str("both")
    THEN Float(right_contact_force + left_contact_force - right_speed - left_speed)
    ELSE IF support_phase = HumanoidRobot_Side("left")
    THEN Float(left_contact_force - left_speed + right_contact_force + right_speed)
    ELSE IF support_phase = HumanoidRobot_Side("right")
    THEN Float(right_contact_force - right_speed + left_contact_force + left_speed)
    ELSE NoValue

\* no step taken yet
NoStep == [applied |-> "none", reward |-> "none", ticked |-> 0, cooldown |-> 0, dt |-> 0]

\* no gait_reward call yet
NoGaitCall == [called |-> FALSE, support_phase |-> Str("none"), result |-> NoValue]

\* BDXEnv.__init__: startup_cooldown = -self.pwe.initial_delay, prev_t = 0.
\* steps counts the steps since the last reset and resets the resets; last
\* tells what the last step did and gait what the last gait_reward call got
\* and returned.
FootstepsEnvInit ==
    [startup_cooldown |-> -pwe_initial_delay, prev_t |-> 0, time |-> 0,
     ctrl |-> init_pos, pwe |-> pwe_reset, steps |-> 0, resets |-> 0,
     last |-> NoStep, gait |-> NoGaitCall]

\* test() not called yet
EvalInit ==
    [pc |-> "start", is_dir |-> FALSE, listing |-> <<>>, models_paths |-> <<>>, i |-> 0,
     latest_model_id |-> 0, latest_model_path |-> None, path_to_model |-> None,
     algo |-> "SAC", outcome |-> "none"]

\* ------------------------------------------------------------------
\* The control loop of experiments/mujoco/onnx_AMP_mujoco.py.  Simulated time
\* (data.time) counts simulation timesteps of 0.0001 s; a joint position is
\* that of one representative joint, in hundredths of a radian.

\* dt = 0.0001, in timesteps, and the timesteps in a second
policy_dt == 1
TimestepsPerSecond == 10000

control_freq == 60

\* mujoco.mj_step(model, data, 50)
nstep == 50

\* mujoco_init_pos, and the bound of action_clip = (-1, 1)
mujoco_init_pos == 41
action_clip == 100

\* what policy.infer may return
PolicyActions == {-200, 0, 200}

\* the state at `try:`, after the single mj_step of line 129.  iters counts
\* the passes through the loop, and before is last_control as it was before
\* the last control update.
PolicyLoopInit ==
    [pc |-> "running", time |-> policy_dt, prev |-> policy_dt, last_control |-> policy_dt,
     i |-> 0, ctrl |-> mujoco_init_pos, prev_isaac_action |-> 0, iters |-> 0,
     before |-> policy_dt]

\* ------------------------------------------------------------------
\* BDXEnv of experiments/RL/new/env.py, in the units of footsteps_env.py: the
\* two use the same scene.xml and the same init_pos.

\* FRAME_SKIP of env.py
FRAME_SKIP_env == 10

joint_history_length == 3

\* the positions an agent may ask for
EnvActions == {40, 53, 60}

\* self.joint_history_length * [15 * [0]]
NoHistory == [k \in 1..joint_history_length |-> 0]

\* BDXEnv.__init__.  observed counts the _get_obs calls since the history
\* was last emptied, and recent holds the controls applied before the last
\* three of them, the latest first.
EnvInit ==
    [startup_cooldown |-> 1000, prev_t |-> 0, time |-> 0, ctrl |-> 0,
     joint_ctrl_history |-> NoHistory, steps |-> 0, resets |-> 0,
     observed |-> 0, recent |-> <<>>, last |-> NoStep]

\* ------------------------------------------------------------------
\* experiments/LeRobot/record_episodes_hdf5.py: the main loop, and the
\* viewer's thread in which launch_passive calls key_callback.  Simulated time
\* is in milliseconds.  A sample is known by its number.

\* the keys of data_dict, in the order the loop appends to them and
\* data_dict.items() gives them
BufferNames ==
    <<"/action", "/observations/qpos", "/observations/qvel", "/observations/target",
      "/observations/feet_contact">>

\* the five empty lists of lines 54-60 and 95-101
FreshBuffers == [k \in 1..Len(BufferNames) |-> <<>>]

\* args.sampling_rate
SamplingRates == {250, 500}

\* the state at line 53, before the arguments are read.  pc is the position of
\* the main thread and key.pc that of the viewer's thread; k is the next
\* buffer to append to, key.k the next dataset to write; keys counts the
\* Enter presses, samples the samples taken, and episodes holds the lengths
\* written for each episode saved.
RecorderInit ==
    [pc |-> "args", sampling_rate |-> 30, time |-> 0, last |-> 0, recording |-> FALSE,
     data_dict |-> FreshBuffers, k |-> 1, samples |-> 0,
     key |-> [pc |-> "idle", max_timesteps |-> 0, k |-> 1, written |-> <<>>],
     keys |-> 0, episodes |-> <<>>]

\* ------------------------------------------------------------------
\* The state of the walk loop before its first tick.
NoTick ==
    [faulted |-> FALSE, updates |-> 0, solves |-> 0, samples |-> <<>>,
     asked |-> FALSE, can |-> FALSE, replanned |-> FALSE,
     feet_contact |-> <<FALSE, FALSE>>, pose_forced |-> FALSE]

Init ==
    /\ mode \in Modes
    /\ pc = "running"
    /\ t = initial_delay
    /\ last_replan = 0
    /\ petage_de_gueule = FALSE
    /\ got_input = FALSE
    /\ d_x = d_x_initial
    /\ d_y = 0
    /\ d_theta = 0
    /\ nb_steps = nb_steps_initial
    /\ planner_cfg = [d_x |-> d_x_initial, d_y |-> 0, d_theta |-> 0,
                      nb_steps |-> nb_steps_initial]
    /\ supports = make_supports(FootstepsPlan(planner_cfg, "left"),
                                TRUE, has_double_support, TRUE)
    /\ trajectory = walk_plan(supports, 0)
    /\ task_target = InitialPose
    /\ robot_q = [pose |-> InitialPose, err |-> 0]
    /\ sent = <<>>
    /\ time_since_last_left_contact = IF mode = "mujoco" THEN 0 ELSE Undefined
    /\ time_since_last_right_contact = IF mode = "mujoco" THEN 0 ELSE Undefined
    /\ ticks = 0
    /\ missed = [left |-> 0, right |-> 0]
    /\ replans = 0
    /\ refusals = 0
    /\ last = NoTick
    /\ pacing = PacingInit
    /\ imu = ImuInit
    /\ planner_call = PlannerInit
    /\ footsteps_env = FootstepsEnvInit
    /\ env = EnvInit
    /\ eval_run = EvalInit
    /\ policy_loop = PolicyLoopInit
    /\ recorder = RecorderInit

Command == [d_x |-> d_x, d_y |-> d_y, d_theta |-> d_theta, nb_steps |-> nb_steps]

\* the planner left with what it was configured with before
Configure_Never(input, command, cfg) == cfg

\* if got_input: repetitive_footsteps_planner.configure(d_x, d_y, d_theta,
\* nb_steps): what the planner is configured with after the test
Configure(input, command, cfg) == IF input THEN command ELSE cfg

\* every sub-step sampling the trajectory at the tick's own time
SampleTime_TickTime(tt, k) == tt

\* the time of sub-step k: t - DT + k * DT / REFINE
SampleTime(tt, k) == tt - DT + k * (DT \div REFINE)

\* the task update without its guard
UpdateTasks_Always(faulted, tasks, traj, tt, k) ==
    update_tasks_from_trajectory(traj, SampleTime(tt, k))

\* if not petage_de_gueule: tasks.update_tasks_from_trajectory(...)
UpdateTasks(faulted, tasks, traj, tt, k) ==
    IF ~faulted THEN update_tasks_from_trajectory(traj, SampleTime(tt, k)) ELSE tasks

\* the solver step skipped while the flag is set
SolveStep_NotWhileFaulted(q, tasks) == IF petage_de_gueule THEN q ELSE solve(q, tasks)

\* robot.update_kinematics(); qd_sol = solver.solve(True)
SolveStep(q, tasks) == solve(q, tasks)

\* for k in range(REFINE): the sub-steps from k on, s being what the earlier
\* ones left
RECURSIVE RefineLoop(_, _)
RefineLoop(k, s) ==
    IF k >= REFINE THEN s
    ELSE LET tasks1 == UpdateTasks(petage_de_gueule, s.tasks, trajectory, t, k)
             s1 == [tasks |-> tasks1,
                    q |-> SolveStep(s.q, tasks1),
                    updates |-> IF ~petage_de_gueule THEN s.updates + 1 ELSE s.updates,
                    solves |-> s.solves + 1,
                    samples |-> IF ~petage_de_gueule
                                THEN Append(s.samples, SampleTime(t, k)) ELSE s.samples]
         IN  RefineLoop(k + 1, s1)

\* the cadence measured in control periods: replan_timesteps * DT
ReplanCadence_ControlPeriod(tt, lr) == Binary64SumGt(tt - lr, replan_timesteps * DT)

\* the cadence measured from the start of the run
ReplanCadence_SinceStart(tt, lr) ==
    Binary64SumGt(tt - initial_delay - lr, replan_timesteps * ParametersDt)

\* t - last_replan > parameters.replan_timesteps * parameters.dt()
ReplanCadence(tt, lr) == Binary64SumGt(tt - lr, replan_timesteps * ParametersDt)

\* last_replan moved whenever the cadence condition holds
NextLastReplan_OnCadence(do_replan, tt, lr) ==
    IF Binary64SumGt(tt - lr, replan_timesteps * ParametersDt) THEN tt ELSE lr

\* last_replan after the replan test
NextLastReplan(do_replan, tt, lr) == IF do_replan THEN tt ELSE lr

\* the pair unpacked in the order (left, right)
UnpackContacts_LeftFirst(feet_contact) ==
    [right |-> feet_contact[2], left |-> feet_contact[1]]

\* no supports planned for a command of no displacement
NextSupports_NoneWhenStill(do_replan, cfg, traj, tt, sups) ==
    IF do_replan
    THEN IF cfg.d_x = 0 /\ cfg.d_y = 0 /\ cfg.d_theta = 0
         THEN <<>> ELSE replan_supports(cfg, traj, tt)
    ELSE sups

\* supports after the replan test:
\* walk.replan_supports(repetitive_footsteps_planner, trajectory, t)
NextSupports(do_replan, cfg, traj, tt, sups) ==
    IF do_replan THEN replan_supports(cfg, traj, tt) ELSE sups

\* the new trajectory built on the supports of before the replan
NextTrajectory_OldSupports(do_replan, sups, traj, tt) ==
    IF do_replan THEN replan(supports, traj, tt) ELSE traj

\* trajectory after the replan test: walk.replan(supports, trajectory, t)
NextTrajectory(do_replan, sups, traj, tt) ==
    IF do_replan THEN replan(sups, traj, tt) ELSE traj

\* right_contact, left_contact = bdx_mujoco_server.get_feet_contact()
UnpackContacts(feet_contact) == [right |-> feet_contact[1], left |-> feet_contact[2]]

\* if contact: time_since_last_contact = 0.0
ContactReset(timer, contact) == IF contact THEN 0 ELSE timer

\* the flag kept once set
FaultFlag_Latched(tl, tr) ==
    \/ petage_de_gueule
    \/ Binary64SumGt(tl, single_support_duration)
    \/ Binary64SumGt(tr, single_support_duration)

\* the flag set for the left timer only
FaultFlag_LeftOnly(tl, tr) == Binary64SumGt(tl, single_support_duration)

\* the flag set only for the foot the trajectory has in single support
FaultFlag_SupportFoot(tl, tr) ==
    \/ Binary64SumGt(tl, single_support_duration) /\ support_side(trajectory, t) = "left"
    \/ Binary64SumGt(tr, single_support_duration) /\ support_side(trajectory, t) = "right"

\* the value petage_de_gueule is given from the two timers
FaultFlag(tl, tr) ==
    \/ Binary64SumGt(tl, single_support_duration)
    \/ Binary64SumGt(tr, single_support_duration)

\* time_since_last_contact += DT
AdvanceTimer(timer) == timer + DT

\* t += DT
AdvanceClock(tt) == tt + DT

\* if t < -2: sim.setRobotPose(...), in the pybullet branch
WarmupEnforced(tt) == tt < warmup_end

\* the command after the key test of the mujoco mode
KeyCommand(key_pressed) ==
    IF key_pressed
    THEN [d_x |-> d_x_key, d_y |-> d_y, d_theta |-> d_theta, nb_steps |-> nb_steps]
    ELSE [d_x |-> 0, d_y |-> 0, d_theta |-> 0, nb_steps |-> nb_steps]

\* One pass through the loop body.  can is what walk.can_replan_supports
\* answers for (trajectory, t), feet_contact the pair get_feet_contact()
\* returns, key_pressed whether the viewer holds a key; each is drawn from the
\* set given.
LoopBody(CanSet, ContactSet, KeySet) ==
    LET cfg1 == Configure(got_input, Command, planner_cfg)
        ik == RefineLoop(0, [tasks |-> task_target, q |-> robot_q, updates |-> 0,
                             solves |-> 0, samples |-> <<>>])
        cadence == ReplanCadence(t, last_replan)
        emits == mode \in {"pybullet", "robot", "mujoco"}
    IN  /\ pc = "running"
        /\ planner_cfg' = cfg1
        /\ task_target' = ik.tasks
        /\ robot_q' = ik.q
        /\ sent' = IF emits THEN <<ik.q>> ELSE sent
        /\ UNCHANGED mode
        /\ \E can \in CanSet :
            LET do_replan == cadence /\ can
                supports1 == NextSupports(do_replan, cfg1, trajectory, t, supports)
            IN  /\ supports' = supports1
                /\ trajectory' = NextTrajectory(do_replan, supports1, trajectory, t)
                /\ last_replan' = NextLastReplan(do_replan, t, last_replan)
                /\ replans' = IF do_replan THEN replans + 1 ELSE replans
                /\ refusals' = IF cadence /\ ~can /\ can_replan_supports(trajectory, t)
                               THEN refusals + 1 ELSE refusals
                /\ \E feet_contact \in ContactSet :
                    /\ last' = [faulted |-> petage_de_gueule, updates |-> ik.updates,
                                solves |-> ik.solves, samples |-> ik.samples,
                                asked |-> cadence, can |-> can, replanned |-> do_replan,
                                feet_contact |-> feet_contact,
                                pose_forced |-> mode = "pybullet" /\ WarmupEnforced(t)]
                    /\ IF mode = "robot"
                       THEN \* time_since_last_left_contact is read and was never
                            \* assigned: NameError
                            /\ pc' = "crashed"
                            /\ got_input' = FALSE
                            /\ UNCHANGED <<t, petage_de_gueule, d_x, d_y, d_theta, nb_steps,
                                           time_since_last_left_contact,
                                           time_since_last_right_contact, ticks, missed>>
                       ELSE /\ pc' = "running"
                            /\ t' = AdvanceClock(t)
                            /\ ticks' = ticks + 1
                            /\ IF mode = "mujoco"
                               THEN LET left_contact == UnpackContacts(feet_contact).left
                                        right_contact == UnpackContacts(feet_contact).right
                                        tl == ContactReset(time_since_last_left_contact,
                                                           left_contact)
                                        tr == ContactReset(time_since_last_right_contact,
                                                           right_contact)
                                    IN  /\ petage_de_gueule' = FaultFlag(tl, tr)
                                        /\ time_since_last_left_contact' = AdvanceTimer(tl)
                                        /\ time_since_last_right_contact' = AdvanceTimer(tr)
                                        /\ got_input' = TRUE
                                        /\ missed' =
                                            [left |-> IF feet_contact[2] THEN 0
                                                      ELSE missed.left + 1,
                                             right |-> IF feet_contact[1] THEN 0
                                                       ELSE missed.right + 1]
                                        /\ \E key_pressed \in KeySet :
                                            /\ d_x' = KeyCommand(key_pressed).d_x
                                            /\ d_y' = KeyCommand(key_pressed).d_y
                                            /\ d_theta' = KeyCommand(key_pressed).d_theta
                                            /\ nb_steps' = KeyCommand(key_pressed).nb_steps
                               ELSE /\ got_input' = FALSE
                                    /\ UNCHANGED <<petage_de_gueule, d_x, d_y, d_theta,
                                                   nb_steps, time_since_last_left_contact,
                                                   time_since_last_right_contact, missed>>

\* ------------------------------------------------------------------
\* The inputs of a tick.

\* the library's answer: it is asked only when the cadence condition holds
CanInputs ==
    IF ReplanCadence(t, last_replan) /\ refusals < MaxRefusals
    THEN CanReplanOutcomes(trajectory, t)
    ELSE {can_replan_supports(trajectory, t)}

NoContact == <<FALSE, FALSE>>

\* get_feet_contact() returns (right, left)
FeetContactInputs ==
    {fc \in BOOLEAN \X BOOLEAN :
        /\ ~fc[1] => missed.right < MaxNoContact
        /\ ~fc[2] => missed.left < MaxNoContact}

\* both feet are on the ground during the warm-up
WalkContactInputs == IF t < 0 THEN {<<TRUE, TRUE>>} ELSE FeetContactInputs

TickPybullet ==
    /\ mode = "pybullet"
    /\ ticks < MaxTicks
    /\ LoopBody(CanInputs, {NoContact}, {FALSE})
    /\ UNCHANGED <<pacing, imu, planner_call, other_programs>>

TickMeshcat ==
    /\ mode = "meshcat"
    /\ ticks < MaxTicks
    /\ LoopBody(CanInputs, {NoContact}, {FALSE})
    /\ UNCHANGED <<pacing, imu, planner_call, other_programs>>

TickRobot ==
    /\ mode = "robot"
    /\ ticks < MaxTicks
    /\ LoopBody(CanInputs, {NoContact}, {FALSE})
    /\ UNCHANGED <<pacing, imu, planner_call, other_programs>>

TickMujoco ==
    /\ mode = "mujoco"
    /\ ticks < MaxTicks
    /\ LoopBody(CanInputs, FeetContactInputs, BOOLEAN)
    /\ UNCHANGED <<pacing, imu, planner_call, other_programs>>

Next == TickPybullet \/ TickMeshcat \/ TickRobot \/ TickMujoco

Spec == Init /\ [][Next]_vars

WalkPybullet ==
    /\ mode = "pybullet"
    /\ t < MaxT
    /\ LoopBody(CanInputs, {NoContact}, {FALSE})
    /\ UNCHANGED <<pacing, imu, planner_call, other_programs>>

WalkMeshcat ==
    /\ mode = "meshcat"
    /\ t < MaxT
    /\ LoopBody(CanInputs, {NoContact}, {FALSE})
    /\ UNCHANGED <<pacing, imu, planner_call, other_programs>>

WalkRobot ==
    /\ mode = "robot"
    /\ t < MaxT
    /\ LoopBody(CanInputs, {NoContact}, {FALSE})
    /\ UNCHANGED <<pacing, imu, planner_call, other_programs>>

WalkMujoco ==
    /\ mode = "mujoco"
    /\ t < MaxT
    /\ LoopBody(CanInputs, WalkContactInputs, {FALSE})
    /\ UNCHANGED <<pacing, imu, planner_call, other_programs>>

NextWalk == WalkPybullet \/ WalkMeshcat \/ WalkRobot \/ WalkMujoco

SpecWalk == Init /\ [][NextWalk]_vars

\* the walk on both feet with the viewer's key free in every tick
CommandMujoco ==
    /\ mode = "mujoco"
    /\ t < MaxT
    /\ LoopBody(CanInputs, {<<TRUE, TRUE>>}, BOOLEAN)
    /\ UNCHANGED <<pacing, imu, planner_call, other_programs>>

NextCommand == WalkPybullet \/ WalkMeshcat \/ WalkRobot \/ CommandMujoco

SpecCommand == Init /\ [][NextCommand]_vars

\* ------------------------------------------------------------------
\* A solver step without a solution.  solver.solve(True) raises when no
\* joint velocity satisfies the hard limits; the loop has no handler around
\* it, so the exception leaves `while True`.

\* the sub-steps k .. n - 1 of `for k in range(REFINE)`
RECURSIVE RefineUntil(_, _, _)
RefineUntil(k, n, s) ==
    IF k >= n THEN s
    ELSE LET tasks1 == UpdateTasks(petage_de_gueule, s.tasks, trajectory, t, k)
         IN  RefineUntil(k + 1, n,
                         [tasks |-> tasks1, q |-> SolveStep(s.q, tasks1)])

\* The tick in which the solver finds sub-step k infeasible: the planner has
\* been configured, the sub-steps before k are done, the tasks of sub-step k
\* are updated, and solve raises before it applies anything to the robot.
SolveInfeasible(k) ==
    LET before == RefineUntil(0, k, [tasks |-> task_target, q |-> robot_q])
    IN  /\ pc = "running"
        /\ planner_cfg' = Configure(got_input, Command, planner_cfg)
        /\ got_input' = FALSE
        /\ task_target' = UpdateTasks(petage_de_gueule, before.tasks, trajectory, t, k)
        /\ robot_q' = before.q
        /\ pc' = "crashed"
        /\ UNCHANGED <<mode, t, last_replan, petage_de_gueule, d_x, d_y, d_theta, nb_steps,
                       supports, trajectory, sent, time_since_last_left_contact,
                       time_since_last_right_contact, ticks, missed, replans, refusals,
                       last, pacing, imu, planner_call, other_programs>>

\* a tick of any mode, both feet on the ground
IKTick ==
    /\ ticks < MaxTicks
    /\ LoopBody(CanInputs, {<<TRUE, TRUE>>}, BOOLEAN)
    /\ UNCHANGED <<pacing, imu, planner_call, other_programs>>

IKInfeasible ==
    /\ ticks < MaxTicks
    /\ \E k \in 0..(REFINE - 1) : SolveInfeasible(k)

NextIK == IKTick \/ IKInfeasible

SpecIK == Init /\ [][NextIK]_vars

\* ------------------------------------------------------------------
\* An external interrupt.  The script installs no signal handler and has no
\* try/except/finally around the loop: SIGINT raises KeyboardInterrupt in the
\* loop, nothing catches it, and the interpreter exits.  Nothing is sent to
\* the actuators on the way out.
Interrupt ==
    /\ pc = "running"
    /\ pc' = "interrupted"
    /\ UNCHANGED <<mode, t, last_replan, petage_de_gueule, got_input, d_x, d_y, d_theta,
                   nb_steps, planner_cfg, supports, trajectory, task_target, robot_q, sent,
                   time_since_last_left_contact, time_since_last_right_contact,
                   ticks, missed, replans, refusals, last, pacing, imu, planner_call, other_programs>>

NextCancel == IKTick \/ Interrupt

SpecCancel == Init /\ [][NextCancel]_vars

\* ------------------------------------------------------------------
\* The loop and the wall clock: `while time.time() < start_t + t:
\* time.sleep(1e-5)` after each pass through the body.

walk_vars == <<mode, pc, t, last_replan, petage_de_gueule, got_input, d_x, d_y, d_theta,
               nb_steps, planner_cfg, supports, trajectory, task_target, robot_q, sent,
               time_since_last_left_contact, time_since_last_right_contact,
               ticks, missed, replans, refusals, last>>

\* the wait started from the planning time of the tick that has just run
PaceWaitCondition_PreviousTick(now, tt) == now < tt - DT

\* time.time() < start_t + t
PaceWaitCondition(now, tt) == now < tt

\* the wall-clock time one pass through the body may take, and one sleep
TickTimes == {1, MaxTickTime}
SleepTimes == {1, MaxSleep}

\* one pass through the body, up to and including t += DT
PacedTick ==
    /\ pacing.pc = "tick"
    /\ t < MaxPacedT
    /\ LoopBody(CanInputs, {<<TRUE, TRUE>>}, {FALSE})
    /\ \E d \in TickTimes :
          pacing' = [pc |-> "wait", now |-> pacing.now + d, slept |-> FALSE]
    /\ UNCHANGED <<imu, planner_call, other_programs>>

\* the test of the pacing loop holds: time.sleep(1e-5)
PaceSleep ==
    /\ pc = "running"
    /\ pacing.pc = "wait"
    /\ PaceWaitCondition(pacing.now, t)
    /\ \E d \in SleepTimes :
          pacing' = [pc |-> "wait", now |-> pacing.now + d, slept |-> TRUE]
    /\ UNCHANGED <<walk_vars, imu, planner_call, other_programs>>

\* the test of the pacing loop fails: back to the top of `while True`
PaceDone ==
    /\ pc = "running"
    /\ pacing.pc = "wait"
    /\ ~PaceWaitCondition(pacing.now, t)
    /\ pacing' = [pacing EXCEPT !.pc = "tick"]
    /\ UNCHANGED <<walk_vars, imu, planner_call, other_programs>>

NextPacing == PacedTick \/ PaceSleep \/ PaceDone

\* the wall clock keeps advancing: a sleep returns, a test is evaluated
SpecPacing ==
    Init /\ [][NextPacing]_vars /\ WF_vars(PaceSleep) /\ WF_vars(PaceDone)

\* ------------------------------------------------------------------
\* ImuDelaySimulator (experiments/mujoco/onnx_AMP_mujoco.py).  Its clock
\* counts quarters of a millisecond.

\* imu_delay_simulator = ImuDelaySimulator(1)
delay_ms == 1

\* clock units in a millisecond
ImuTicksPerMs == 4

\* the n-th reading: base_quat and base_ang_vel of the n-th get_obs
Reading(n) == [rot |-> <<"quat", n>>, ang_rot |-> <<"gyro", n>>]

ZeroRot == <<0, 0, 0, 0>>
ZeroAngRot == <<0, 0, 0>>

\* a push that queues the rotation alone
ImuPush_RotOnly(s, rot, ang_rot, tt) ==
    [s EXCEPT !.rot = Append(@, rot), !.t0 = IF @ = None THEN <<tt>> ELSE @]

\* ImuDelaySimulator.push(rot, ang_rot, t)
ImuPush(s, rot, ang_rot, tt) ==
    [s EXCEPT !.rot = Append(@, rot), !.ang_rot = Append(@, ang_rot),
              !.t0 = IF @ = None THEN <<tt>> ELSE @]

\* a get that returns the oldest pair without removing it
ImuGet_Peek(s, now) ==
    IF s.t0 = None THEN [kind |-> "TypeError", state |-> s]
    ELSE IF now - s.t0[1] < delay_ms * ImuTicksPerMs
    THEN [kind |-> "zero", rot |-> ZeroRot, ang_rot |-> ZeroAngRot, state |-> s]
    ELSE IF s.rot = <<>> THEN [kind |-> "IndexError", state |-> s]
    ELSE [kind |-> "value", rot |-> Head(s.rot), ang_rot |-> Head(s.ang_rot), state |-> s]

\* a get that takes the newest pair
ImuGet_Newest(s, now) ==
    IF s.t0 = None THEN [kind |-> "TypeError", state |-> s]
    ELSE IF now - s.t0[1] < delay_ms * ImuTicksPerMs
    THEN [kind |-> "zero", rot |-> ZeroRot, ang_rot |-> ZeroAngRot, state |-> s]
    ELSE IF s.rot = <<>> THEN [kind |-> "IndexError", state |-> s]
    ELSE [kind |-> "value", rot |-> s.rot[Len(s.rot)], ang_rot |-> s.ang_rot[Len(s.ang_rot)],
          state |-> [s EXCEPT !.rot = SubSeq(@, 1, Len(@) - 1),
                              !.ang_rot = SubSeq(@, 1, Len(@) - 1)]]

\* ImuDelaySimulator.get() called when the clock reads now: what it returns
\* or raises, and the simulator after it.  Before any push t0 is None and the
\* subtraction raises TypeError; pop(0) of an empty list raises IndexError.
ImuGet(s, now) ==
    IF s.t0 = None THEN [kind |-> "TypeError", state |-> s]
    ELSE IF now - s.t0[1] < delay_ms * ImuTicksPerMs
    THEN [kind |-> "zero", rot |-> ZeroRot, ang_rot |-> ZeroAngRot, state |-> s]
    ELSE IF s.rot = <<>> THEN [kind |-> "IndexError", state |-> s]
    ELSE [kind |-> "value", rot |-> Head(s.rot), ang_rot |-> Head(s.ang_rot),
          state |-> [s EXCEPT !.rot = Tail(@), !.ang_rot = Tail(@)]]

\* the simulator record after a push at the time of the clock, history included
AfterPush(next_pc) ==
    LET r == Reading(Len(imu.pushed) + 1)
        s == ImuPush(imu, r.rot, r.ang_rot, imu.now)
    IN  [s EXCEPT !.pushed = Append(@, [rot |-> r.rot, ang_rot |-> r.ang_rot,
                                        at |-> imu.now]),
                  !.pc = next_pc]

\* the simulator record after a get at the time of the clock, history included
AfterGet ==
    LET g == ImuGet(imu, imu.now)
    IN  [g.state EXCEPT
            !.returned = IF g.kind = "value"
                         THEN Append(@, [rot |-> g.rot, ang_rot |-> g.ang_rot,
                                         at |-> imu.now])
                         ELSE @,
            !.result = IF g.kind \in {"value", "zero"}
                       THEN [kind |-> g.kind, rot |-> g.rot, ang_rot |-> g.ang_rot]
                       ELSE [kind |-> g.kind],
            !.pc = "idle"]

\* get_obs: imu_delay_simulator.push(base_quat, base_ang_vel, time.time())
ObsPush ==
    /\ imu.pc = "idle"
    /\ Len(imu.pushed) < MaxPushes
    /\ imu' = AfterPush("pushed")
    /\ UNCHANGED <<walk_vars, pacing, planner_call, other_programs>>

\* get_obs: base_quat, base_ang_vel = imu_delay_simulator.get()
ObsGet ==
    /\ imu.pc = "pushed"
    /\ imu' = AfterGet
    /\ UNCHANGED <<walk_vars, pacing, planner_call, other_programs>>

\* the wall clock advances
ImuClock ==
    /\ imu.now < MaxImuTime
    /\ imu' = [imu EXCEPT !.now = @ + 1]
    /\ UNCHANGED <<walk_vars, pacing, planner_call, other_programs>>

\* the walk loop is another program: its variables keep their initial values
InitImu == Init /\ mode = "mujoco"

NextImu == ObsPush \/ ObsGet \/ ImuClock

\* the simulator as onnx_AMP_mujoco.py drives it
SpecImu == InitImu /\ [][NextImu]_vars

\* a caller's push, at any time
CallPush ==
    /\ Len(imu.pushed) < MaxPushes
    /\ imu' = AfterPush("idle")
    /\ UNCHANGED <<walk_vars, pacing, planner_call, other_programs>>

\* a caller's get, at any time
CallGet ==
    /\ imu' = AfterGet
    /\ UNCHANGED <<walk_vars, pacing, planner_call, other_programs>>

NextImuCalls == CallPush \/ CallGet \/ ImuClock

\* the simulator under any interleaving of push and get
SpecImuCalls == InitImu /\ [][NextImuCalls]_vars

\* ------------------------------------------------------------------
\* The footstep planner called on its own, with any configuration.

\* the displacements a caller may configure [mm]
StepLengths == {0, d_x_key, d_x_initial}

\* repetitive_footsteps_planner.configure(d_x, d_y, d_theta, nb_steps)
PlannerConfigure ==
    \E dx \in StepLengths, dy \in {0, d_x_key}, n \in 0..MaxSteps :
        /\ planner_call' = [planner_call EXCEPT
                               !.cfg = [d_x |-> dx, d_y |-> dy, d_theta |-> 0,
                                        nb_steps |-> n]]
        /\ UNCHANGED <<walk_vars, pacing, imu, other_programs>>

\* footsteps = repetitive_footsteps_planner.plan(starting_side, T_world_left,
\* T_world_right)
PlannerPlan ==
    \E side \in Sides :
        /\ planner_call' = [planner_call EXCEPT
                               !.called = TRUE,
                               !.starting_side = side,
                               !.nb_steps = planner_call.cfg.nb_steps,
                               !.footsteps = FootstepsPlan(planner_call.cfg, side)]
        /\ UNCHANGED <<walk_vars, pacing, imu, other_programs>>

NextPlanner == PlannerConfigure \/ PlannerPlan

\* the walk loop does not run: its variables keep their initial values
InitPlanner == Init /\ mode = "pybullet"

SpecPlanner == InitPlanner /\ [][NextPlanner]_vars

\* ------------------------------------------------------------------
\* The steps of BDXEnv of experiments/RL/new/footsteps_env.py.

\* the cooldown decreased in every step
Cooldown_Always(startup_cooldown, dt) == startup_cooldown - dt

\* if self.startup_cooldown > 0: self.startup_cooldown -= dt
Cooldown(startup_cooldown, dt) ==
    IF startup_cooldown > 0 THEN startup_cooldown - dt ELSE startup_cooldown

\* the second test of the cooldown in step
InCooldown(startup_cooldown) == startup_cooldown > 0

\* np.clip(a, lo, hi)
Clip(a, lo, hi) == IF a < lo THEN lo ELSE IF a > hi THEN hi ELSE a

\* self.pwe.tick(dt) in the else branch of step
FootstepsPwe(cooling, pwe, dt) == IF cooling THEN pwe ELSE pwe_tick(pwe, dt)

\* BDXEnv.step(a) of footsteps_env.py
FootstepsStep(e, a) ==
    LET t_ == e.time
        dt == t_ - e.prev_t
        cooldown1 == Cooldown(e.startup_cooldown, dt)
        cooling == InCooldown(cooldown1)
        a1 == Clip(a + init_pos, e.ctrl - delta_max, e.ctrl + delta_max)
        pwe1 == FootstepsPwe(cooling, e.pwe, dt)
    IN  [e EXCEPT
            !.startup_cooldown = cooldown1,
            !.ctrl = IF cooling THEN init_pos ELSE a1,
            !.time = @ + FRAME_SKIP * timestep,
            !.pwe = pwe1,
            !.prev_t = t_,
            !.steps = @ + 1,
            !.last = [applied |-> IF cooling THEN "init_pos" ELSE "action",
                      reward |-> IF cooling THEN "zero" ELSE "weighted_sum",
                      ticked |-> pwe1.ticks - e.pwe.ticks,
                      cooldown |-> cooldown1, dt |-> dt]]

\* MujocoEnv.reset(): mj_resetData, then BDXEnv.reset_model()
FootstepsReset(e) ==
    [e EXCEPT !.time = 0, !.prev_t = 0, !.startup_cooldown = 1000,
              !.pwe = pwe_reset, !.ctrl = init_pos, !.steps = 0,
              !.resets = @ + 1, !.last = NoStep]

FootstepsEnvStep ==
    /\ footsteps_env.steps < MaxEnvSteps
    /\ \E a \in Actions : footsteps_env' = FootstepsStep(footsteps_env, a)
    /\ UNCHANGED <<walk_vars, pacing, imu, planner_call, env, eval_run, policy_loop, recorder>>

FootstepsEnvReset ==
    /\ footsteps_env.resets < MaxResets
    /\ footsteps_env.steps > 0
    /\ footsteps_env' = FootstepsReset(footsteps_env)
    /\ UNCHANGED <<walk_vars, pacing, imu, planner_call, env, eval_run, policy_loop, recorder>>

\* a call of gait_reward in the state the last step left
GaitReward ==
    /\ footsteps_env.steps > 0
    /\ \E rf \in ContactForces, lf \in ContactForces, rs \in FootSpeeds, ls \in FootSpeeds :
          LET phase == get_current_support_phase(footsteps_env.pwe)
          IN  footsteps_env' =
                  [footsteps_env EXCEPT
                      !.gait = [called |-> TRUE, support_phase |-> phase,
                                result |-> gait_reward(phase, rf, lf, rs, ls)]]
    /\ UNCHANGED <<walk_vars, pacing, imu, planner_call, env, eval_run, policy_loop, recorder>>

\* the other programs do not run: their variables keep their initial values
InitLearn == Init /\ mode = "mujoco"

NextGait == FootstepsEnvStep \/ FootstepsEnvReset \/ GaitReward

SpecGait == InitLearn /\ [][NextGait]_vars

\* ------------------------------------------------------------------
\* test() of experiments/RL/new/eval.py: the choice of the model file.  A
\* file name is the sequence of its characters.

ZipSuffix == <<".", "z", "i", "p">>

\* the files a directory of models may hold
ModelFiles ==
    { <<"m", "_", "0">> \o ZipSuffix,
      <<"m", "_", "7">> \o ZipSuffix,
      <<"m", "_", "1", "0">> \o ZipSuffix,
      <<"b", "_", "m", "_", "7">> \o ZipSuffix,
      <<"m", "_", "9", ".", "t", "x", "t">> }

\* the algorithms of `match sb3_algo`, and one that is none of them
KnownAlgos == {"SAC", "TD3", "A2C", "TQC", "PPO"}
Algos == {"SAC", "DQN"}

\* str.endswith
EndsWith(str, suffix) ==
    /\ Len(str) >= Len(suffix)
    /\ SubSeq(str, Len(str) - Len(suffix) + 1, Len(str)) = suffix

\* glob(path_to_model + "/*.zip") over the files the directory lists
Glob(listing) == SelectSeq(listing, LAMBDA f : EndsWith(f, ZipSuffix))

\* str.split("_")[-1]: what follows the last "_"
RECURSIVE LastField(_)
LastField(str) ==
    IF str = <<>> \/ str[Len(str)] = "_" THEN <<>>
    ELSE Append(LastField(SubSeq(str, 1, Len(str) - 1)), str[Len(str)])

DigitValue(ch) ==
    CASE ch = "0" -> 0 [] ch = "1" -> 1 [] ch = "2" -> 2 [] ch = "3" -> 3
      [] ch = "4" -> 4 [] ch = "5" -> 5 [] ch = "6" -> 6 [] ch = "7" -> 7
      [] ch = "8" -> 8 [] ch = "9" -> 9

\* int(str) of a string of decimal digits
RECURSIVE ParseInt(_)
ParseInt(str) ==
    IF str = <<>> THEN 0
    ELSE 10 * ParseInt(SubSeq(str, 1, Len(str) - 1)) + DigitValue(str[Len(str)])

\* model_path.split("/")[-1][: -len(".zip")].split("_")[-1], as an int
ModelId(model_path) ==
    ParseInt(LastField(SubSeq(model_path, 1, Len(model_path) - Len(ZipSuffix))))

\* int(model_id) > latest_model_id
NewerModel(model_id, latest_model_id) == model_id > latest_model_id

RECURSIVE Listings(_)
\* the orders in which a directory of at most n files may be listed
Listings(n) ==
    IF n = 0 THEN {<<>>}
    ELSE Listings(n - 1)
         \cup {Append(l, f) : l \in {l \in Listings(n - 1) : Len(l) = n - 1},
                              f \in ModelFiles}

NoTwice(listing) ==
    \A i \in 1..Len(listing), j \in 1..Len(listing) : listing[i] = listing[j] => i = j

\* test(env, sb3_algo, path_to_model) with a directory: lines 55-58
EvalGlob ==
    /\ eval_run.pc = "start"
    /\ \E listing \in {l \in Listings(MaxModels) : NoTwice(l)}, algo \in Algos :
          eval_run' = [eval_run EXCEPT
                          !.pc = "for", !.is_dir = TRUE, !.listing = listing,
                          !.models_paths = Glob(listing), !.i = 1,
                          !.latest_model_id = 0, !.latest_model_path = None,
                          !.algo = algo]
    /\ UNCHANGED <<walk_vars, pacing, imu, planner_call, footsteps_env, env, policy_loop, recorder>>

\* test(env, sb3_algo, path_to_model) with a path that ends in ".zip"
EvalGivenFile ==
    /\ eval_run.pc = "start"
    /\ \E f \in {f \in ModelFiles : EndsWith(f, ZipSuffix)}, algo \in Algos :
          eval_run' = [eval_run EXCEPT !.pc = "match", !.path_to_model = f, !.algo = algo]
    /\ UNCHANGED <<walk_vars, pacing, imu, planner_call, footsteps_env, env, policy_loop, recorder>>

\* one pass through `for model_path in models_paths`
EvalIter ==
    /\ eval_run.pc = "for"
    /\ eval_run.i <= Len(eval_run.models_paths)
    /\ LET model_path == eval_run.models_paths[eval_run.i]
           newer == NewerModel(ModelId(model_path), eval_run.latest_model_id)
       IN  eval_run' = [eval_run EXCEPT
                           !.i = @ + 1,
                           !.latest_model_id = IF newer THEN ModelId(model_path) ELSE @,
                           !.latest_model_path = IF newer THEN model_path ELSE @]
    /\ UNCHANGED <<walk_vars, pacing, imu, planner_call, footsteps_env, env, policy_loop, recorder>>

\* after the loop: lines 65-71
EvalSelect ==
    /\ eval_run.pc = "for"
    /\ eval_run.i > Len(eval_run.models_paths)
    /\ eval_run' =
          IF eval_run.latest_model_path = None
          THEN [eval_run EXCEPT !.pc = "done", !.outcome = "No models found"]
          ELSE [eval_run EXCEPT !.pc = "match",
                                !.path_to_model = eval_run.latest_model_path]
    /\ UNCHANGED <<walk_vars, pacing, imu, planner_call, footsteps_env, env, policy_loop, recorder>>

\* match sb3_algo: lines 73-86
EvalLoad ==
    /\ eval_run.pc = "match"
    /\ eval_run' = [eval_run EXCEPT
                       !.pc = "done",
                       !.outcome = IF eval_run.algo \in KnownAlgos
                                   THEN "loaded" ELSE "Algorithm not found"]
    /\ UNCHANGED <<walk_vars, pacing, imu, planner_call, footsteps_env, env, policy_loop, recorder>>

NextEval == EvalGlob \/ EvalGivenFile \/ EvalIter \/ EvalSelect \/ EvalLoad

SpecEval == InitLearn /\ [][NextEval]_vars

\* ------------------------------------------------------------------
\* The passes through `while True` of onnx_AMP_mujoco.py.

\* t - last_control >= 1 / control_freq
ControlDue(tt, last_control_) == (tt - last_control_) * control_freq >= TimestepsPerSecond

\* get_obs: the push and the get of the delay simulator, at one reading of the
\* wall clock
GetObsImu(s) ==
    LET r == Reading(Len(s.pushed) + 1)
        s1 == [ImuPush(s, r.rot, r.ang_rot, s.now) EXCEPT
                  !.pushed = Append(@, [rot |-> r.rot, ang_rot |-> r.ang_rot, at |-> s.now])]
        g == ImuGet(s1, s1.now)
    IN  [g.state EXCEPT
            !.returned = IF g.kind = "value"
                         THEN Append(@, [rot |-> g.rot, ang_rot |-> g.ang_rot, at |-> s.now])
                         ELSE @,
            !.result = IF g.kind \in {"value", "zero"}
                       THEN [kind |-> g.kind, rot |-> g.rot, ang_rot |-> g.ang_rot]
                       ELSE [kind |-> g.kind],
            !.pc = "idle"]

\* mujoco.mj_step(model, data, 50); viewer.render(); prev = t
PolicySimulate(l) ==
    [l EXCEPT !.time = @ + nstep * policy_dt, !.prev = l.time, !.iters = @ + 1]

\* a pass in which the control update is due: lines 234-266, then 267-270
PolicyControl ==
    /\ policy_loop.pc = "running"
    /\ policy_loop.iters < MaxIters
    /\ ControlDue(policy_loop.time, policy_loop.last_control)
    /\ imu' = GetObsImu(imu)
    /\ \E inferred \in PolicyActions :
          LET isaac_action == Clip(inferred, -action_clip, action_clip)
          IN  policy_loop' =
                  PolicySimulate([policy_loop EXCEPT
                                     !.prev_isaac_action = isaac_action,
                                     !.last_control = policy_loop.time,
                                     !.before = policy_loop.last_control,
                                     !.i = @ + 1,
                                     !.ctrl = mujoco_init_pos + isaac_action])
    /\ UNCHANGED <<walk_vars, pacing, planner_call, footsteps_env, env, eval_run, recorder>>

\* a pass in which it is not: lines 267-270 alone
PolicyIdle ==
    /\ policy_loop.pc = "running"
    /\ policy_loop.iters < MaxIters
    /\ ~ControlDue(policy_loop.time, policy_loop.last_control)
    /\ policy_loop' = PolicySimulate(policy_loop)
    /\ UNCHANGED <<walk_vars, pacing, imu, planner_call, footsteps_env, env, eval_run, recorder>>

\* except KeyboardInterrupt: the pickles are written and the script ends
PolicyInterrupt ==
    /\ policy_loop.pc = "running"
    /\ policy_loop' = [policy_loop EXCEPT !.pc = "saved"]
    /\ UNCHANGED <<walk_vars, pacing, imu, planner_call, footsteps_env, env, eval_run, recorder>>

NextPolicy == PolicyControl \/ PolicyIdle \/ PolicyInterrupt \/ ImuClock

SpecPolicy == InitLearn /\ [][NextPolicy]_vars

\* ------------------------------------------------------------------
\* The steps of BDXEnv of experiments/RL/new/env.py.

\* list[-n:]
LastN(list, n) == IF Len(list) <= n THEN list ELSE SubSeq(list, Len(list) - n + 1, Len(list))

\* list[:n]
FirstN(list, n) == IF Len(list) <= n THEN list ELSE SubSeq(list, 1, n)

\* _get_obs: self.joint_ctrl_history.append(self.data.ctrl.copy());
\* self.joint_ctrl_history = self.joint_ctrl_history[-self.joint_history_length:]
EnvGetObs(e) ==
    [e EXCEPT !.joint_ctrl_history = LastN(Append(@, e.ctrl), joint_history_length),
              !.observed = @ + 1,
              !.recent = FirstN(<<e.ctrl>> \o @, joint_history_length)]

\* BDXEnv.step(a) of env.py
EnvStepOf(e, a) ==
    LET t_ == e.time
        dt == t_ - e.prev_t
        cooldown1 == Cooldown(e.startup_cooldown, dt)
        cooling == InCooldown(cooldown1)
        e1 == [e EXCEPT
                  !.startup_cooldown = cooldown1,
                  !.ctrl = IF cooling THEN init_pos ELSE a,
                  !.time = @ + FRAME_SKIP_env * timestep,
                  !.steps = @ + 1,
                  !.last = [applied |-> IF cooling THEN "init_pos" ELSE "action",
                            reward |-> IF cooling THEN "zero" ELSE "weighted_sum",
                            ticked |-> 0, cooldown |-> cooldown1, dt |-> dt]]
    IN  [EnvGetObs(e1) EXCEPT !.prev_t = t_]

\* MujocoEnv.reset(): mj_resetData, then BDXEnv.reset_model()
EnvResetOf(e) ==
    EnvGetObs([e EXCEPT !.time = 0, !.prev_t = 0, !.startup_cooldown = 1000,
                        !.ctrl = init_pos, !.joint_ctrl_history = NoHistory,
                        !.steps = 0, !.resets = @ + 1, !.observed = 0,
                        !.recent = <<>>, !.last = NoStep])

EnvStep ==
    /\ env.steps < MaxEnvSteps
    /\ \E a \in EnvActions : env' = EnvStepOf(env, a)
    /\ UNCHANGED <<walk_vars, pacing, imu, planner_call, footsteps_env, eval_run, policy_loop, recorder>>

EnvReset ==
    /\ env.resets < MaxResets
    /\ env.steps > 0
    /\ env' = EnvResetOf(env)
    /\ UNCHANGED <<walk_vars, pacing, imu, planner_call, footsteps_env, eval_run, policy_loop, recorder>>

NextEnv == EnvStep \/ EnvReset

SpecEnv == InitLearn /\ [][NextEnv]_vars

\* ------------------------------------------------------------------
\* The two threads of record_episodes_hdf5.py.  The interpreter switches
\* threads between statements: each action is one statement, or a run of
\* statements that touch nothing the other thread does.

\* data.time - last > (1 / args.sampling_rate)
SampleDue(rec) == (rec.time - rec.last) * rec.sampling_rate > 1000

\* the main thread: args = parser.parse_args() up to `while True`
RecArgs ==
    /\ recorder.pc = "args"
    /\ \E rate \in SamplingRates :
          recorder' = [recorder EXCEPT !.pc = "top", !.sampling_rate = rate]
    /\ UNCHANGED <<walk_vars, pacing, imu, planner_call, footsteps_env, env, eval_run, policy_loop>>

\* the main thread: lines 167-203, the test of line 199 included
RecTest ==
    /\ recorder.pc = "top"
    /\ recorder' =
          IF recorder.recording /\ SampleDue(recorder)
          THEN [recorder EXCEPT !.pc = "append", !.last = recorder.time, !.k = 1,
                                !.samples = @ + 1]
          ELSE [recorder EXCEPT !.pc = "step"]
    /\ UNCHANGED <<walk_vars, pacing, imu, planner_call, footsteps_env, env, eval_run, policy_loop>>

\* the main thread: one of the five data_dict[...].append(...) statements
RecAppend ==
    /\ recorder.pc = "append"
    /\ recorder' =
          [recorder EXCEPT
              !.data_dict[recorder.k] = Append(@, recorder.samples),
              !.k = @ + 1,
              !.pc = IF recorder.k = Len(BufferNames) THEN "step" ELSE "append"]
    /\ UNCHANGED <<walk_vars, pacing, imu, planner_call, footsteps_env, env, eval_run, policy_loop>>

\* the main thread: lines 224-228
RecStep ==
    /\ recorder.pc = "step"
    /\ recorder.time < MaxRecTime
    /\ recorder' = [recorder EXCEPT !.pc = "top", !.time = @ + timestep]
    /\ UNCHANGED <<walk_vars, pacing, imu, planner_call, footsteps_env, env, eval_run, policy_loop>>

\* the viewer's thread: key_callback(257), start_stop_recording up to line 71
KeyEnter ==
    /\ recorder.key.pc = "idle"
    /\ recorder.pc # "args"
    /\ recorder.keys < MaxKeys
    /\ recorder' =
          [recorder EXCEPT
              !.recording = ~@,
              !.keys = @ + 1,
              !.key.pc = IF recorder.recording THEN "measure" ELSE "idle"]
    /\ UNCHANGED <<walk_vars, pacing, imu, planner_call, footsteps_env, env, eval_run, policy_loop>>

\* the viewer's thread: max_timesteps = len(data_dict["/action"]), and the
\* datasets created with that many rows
KeyMeasure ==
    /\ recorder.key.pc = "measure"
    /\ recorder' =
          [recorder EXCEPT
              !.key = [pc |-> "write", max_timesteps |-> Len(recorder.data_dict[1]),
                       k |-> 1, written |-> <<>>]]
    /\ UNCHANGED <<walk_vars, pacing, imu, planner_call, footsteps_env, env, eval_run, policy_loop>>

\* the viewer's thread: root[name][...] = array for one name; h5py raises
\* when the list has not the rows of the dataset
KeyWrite ==
    /\ recorder.key.pc = "write"
    /\ LET array == recorder.data_dict[recorder.key.k]
       IN  recorder' =
              IF Len(array) = recorder.key.max_timesteps
              THEN [recorder EXCEPT
                       !.key.written = Append(@, array),
                       !.key.k = @ + 1,
                       !.key.pc = IF recorder.key.k = Len(BufferNames)
                                  THEN "replace" ELSE "write"]
              ELSE [recorder EXCEPT !.key.pc = "raised"]
    /\ UNCHANGED <<walk_vars, pacing, imu, planner_call, footsteps_env, env, eval_run, policy_loop>>

\* the viewer's thread: data_dict = {...}, lines 95-101
KeyReplace ==
    /\ recorder.key.pc = "replace"
    /\ recorder' =
          [recorder EXCEPT
              !.data_dict = FreshBuffers,
              !.episodes = Append(@, recorder.key.written),
              !.key.pc = "idle"]
    /\ UNCHANGED <<walk_vars, pacing, imu, planner_call, footsteps_env, env, eval_run, policy_loop>>

NextRecorder ==
    RecArgs \/ RecTest \/ RecAppend \/ RecStep
    \/ KeyEnter \/ KeyMeasure \/ KeyWrite \/ KeyReplace

SpecRecorder == InitLearn /\ [][NextRecorder]_vars

\* ------------------------------------------------------------------
\* The two environments side by side: a process constructs one of them, and
\* the first step or reset tells which.

CooldownFootstepsStep == env = EnvInit /\ FootstepsEnvStep

CooldownFootstepsReset == env = EnvInit /\ FootstepsEnvReset

CooldownEnvStep == footsteps_env = FootstepsEnvInit /\ EnvStep

CooldownEnvReset == footsteps_env = FootstepsEnvInit /\ EnvReset

NextCooldown ==
    CooldownFootstepsStep \/ CooldownFootstepsReset \/ CooldownEnvStep \/ CooldownEnvReset

SpecCooldown == InitLearn /\ [][NextCooldown]_vars

\* ------------------------------------------------------------------
\* Properties.

TimerOf(side) ==
    IF side = "left" THEN time_since_last_left_contact ELSE time_since_last_right_contact

\* what get_feet_contact() reported for a side in the last tick
LastContact(side) == IF side = "left" THEN last.feet_contact[2] ELSE last.feet_contact[1]

\* the timers are advanced after the flag is computed: the value the flag was
\* computed from is the timer less DT
TimerExceeded(side) == Binary64SumGt(TimerOf(side) - DT, single_support_duration)

\* the contact-less ticks single_support_duration lasts
FaultTicks == single_support_duration \div DT

\* C1: with single_support_duration = 0.2 s and DT = 0.01 s, the flag is not
\* set at the end of any of a foot's first 19 consecutive ticks without
\* contact, and it is set by the end of the 21st.
FaultEntryTiming ==
    mode = "mujoco" =>
        /\ petage_de_gueule => \E side \in Sides : missed[side] > FaultTicks - 1
        /\ (\E side \in Sides : missed[side] >= FaultTicks + 1) => petage_de_gueule

\* the left foot reported contact and then none for 21 ticks, the right foot
\* is on the ground, and the flag is set
FaultEntryWitness ==
    /\ mode = "mujoco"
    /\ petage_de_gueule
    /\ missed.left = FaultTicks + 1
    /\ missed.right = 0
    /\ ticks > missed.left

\* C2 as stated: the flag is set only when the foot whose timer exceeded is
\* the foot the trajectory has in single support.
FaultOnlyForSupportFoot ==
    [][(mode = "mujoco" /\ ~petage_de_gueule /\ petage_de_gueule')
        => \E side \in Sides :
              /\ TimerExceeded(side)'
              /\ support_side(trajectory', t) = side]_vars

\* C2: the flag at the end of a tick is set exactly when, after the tick's
\* contact resets, one of the two timers exceeds single_support_duration,
\* whatever the support phase of the trajectory.
FaultFromTimersAlone ==
    (mode = "mujoco" /\ ticks > 0)
        => (petage_de_gueule <=> \E side \in Sides : TimerExceeded(side))

\* the flag is set while the trajectory is in double support
FaultInDoubleSupport ==
    /\ mode = "mujoco"
    /\ petage_de_gueule
    /\ ticks > 0
    /\ support_side(trajectory, t - DT) = "both"

\* C3: in a tick that starts with the flag set none of the REFINE sub-steps
\* updates the tasks from the trajectory and the task targets keep their
\* values; the flag computed at the end of a tick is the one the sub-steps of
\* the next tick see.
TasksFrozenWhileFaulted ==
    [][/\ last'.faulted = petage_de_gueule
       /\ petage_de_gueule => (last'.updates = 0 /\ task_target' = task_target)
       /\ last'.updates # 0 => ~petage_de_gueule]_vars

\* a tick of the walk ran with the flag set and left the targets where an
\* earlier tick had put them
TasksFrozenWitness ==
    /\ last.faulted
    /\ last.updates = 0
    /\ task_target.at > 0
    /\ task_target.at < t - 2 * DT

\* C4 as stated: while the flag is set the mapping sent equals the one sent
\* on the last tick before the fault.
MotionFrozenWhileFaulted ==
    [][petage_de_gueule => sent' = sent]_vars

RECURSIVE SolveTimes(_, _, _)
SolveTimes(q, target, n) ==
    IF n = 0 THEN q ELSE SolveTimes(solve(q, target), target, n - 1)

\* C4: in a tick that starts with the flag set the task targets are kept, the
\* solver still takes its REFINE steps towards them, and the mapping sent is
\* the robot state those steps give.
SolverRunsWhileFaulted ==
    [][(petage_de_gueule /\ pc = "running")
        => /\ task_target' = task_target
           /\ last'.solves = REFINE
           /\ robot_q' = SolveTimes(robot_q, task_target, REFINE)
           /\ sent' = <<robot_q'>>]_vars

\* the flag was set in a tick of the walk whose solver steps changed what is
\* sent
SolverRunsWitness ==
    /\ mode = "mujoco"
    /\ last.faulted
    /\ last.solves = REFINE
    /\ robot_q.pose.at > 0
    /\ robot_q.err = 0
    /\ robot_q.pose.at = t - 2 * DT - 1

\* C5: the flag is not latched.  In the tick in which contact is observed for
\* every foot whose timer had exceeded, the flag is cleared; it is clear at the
\* end of every tick in which both feet report contact; and the tick after a
\* clear flag updates the tasks again.
FaultRecovery ==
    [][mode = "mujoco"
        => /\ (\A side \in Sides :
                 Binary64SumGt(TimerOf(side), single_support_duration)
                     => LastContact(side)')
              => ~petage_de_gueule'
           /\ (LastContact("left")' /\ LastContact("right")') => ~petage_de_gueule'
           /\ ~petage_de_gueule => last'.updates = REFINE]_vars

\* a tick started with the flag set, observed contact for the foot whose timer
\* had exceeded, and ended with the flag cleared
FaultRecovered ==
    /\ mode = "mujoco"
    /\ last.faulted
    /\ ~petage_de_gueule
    /\ \E side \in Sides : LastContact(side) /\ missed[Other(side)] > 0
    /\ ticks > FaultTicks + 1

\* C6 as stated: a replan is performed exactly when
\* t - last_replan > replan_timesteps * DT and can_replan_supports is true.
ReplanEveryTenControlPeriods ==
    [][last'.replanned
        <=> (t - last_replan > replan_timesteps * DT /\ last'.can)]_vars

\* C6: a replan is performed exactly when
\* t - last_replan > replan_timesteps * parameters.dt(), the planning timestep
\* of 0.02 s, and can_replan_supports is true; last_replan then becomes t, so
\* that consecutive replans are more than that long apart.
ReplanCadenceTheorem ==
    [][/\ last'.replanned
            <=> (/\ Binary64SumGt(t - last_replan, replan_timesteps * ParametersDt)
                 /\ last'.can)
       /\ last'.replanned
            => /\ last_replan' = t
               /\ Binary64SumGt(last_replan' - last_replan,
                                replan_timesteps * ParametersDt)
               /\ trajectory'.planned_at = t
       /\ ~last'.replanned => last_replan' = last_replan]_vars

\* a second replan
SecondReplan ==
    /\ last.replanned
    /\ replans = 2
    /\ last_replan = t - DT

\* C7: when the cadence condition holds and can_replan_supports is false, the
\* trajectory, the supports and last_replan are unchanged and nothing is
\* raised, and the following tick asks again.
RefusedReplanIsNoOp ==
    [][/\ (last'.asked /\ ~last'.can)
            => /\ UNCHANGED <<trajectory, supports, last_replan>>
               /\ ~last'.replanned
               /\ mode # "robot" => pc' = "running"
       /\ (last.asked /\ ~last.can /\ ticks > 0) => last'.asked]_vars

\* a replan refused in one tick and performed in a later one
ReplanAfterRefusal ==
    /\ last.asked
    /\ last.replanned
    /\ refusals > 0
    /\ replans = 1
    /\ t > replan_timesteps * ParametersDt + DT

\* C8 as stated: every tick, in every run mode, advances t by DT, so that
\* after n ticks t = initial_delay + n * DT.
ClockAdvancesEveryTick ==
    [][t' = t + DT /\ ticks' = ticks + 1 /\ t' = initial_delay + ticks' * DT]_vars

\* C9: each timer is reset to zero in a tick if and only if that foot's flag
\* in the pair (right, left) is true, and otherwise keeps growing by DT; what
\* one foot reports never touches the other foot's timer; and the flag is
\* computed again from the two timers in every tick.
ContactTimersPerSide ==
    [][mode = "mujoco"
        => /\ \A side \in Sides :
                TimerOf(side)' = (IF LastContact(side)' THEN 0 ELSE TimerOf(side)) + DT
           /\ petage_de_gueule'
                <=> \E side \in Sides :
                       Binary64SumGt(IF LastContact(side)' THEN 0 ELSE TimerOf(side),
                                     single_support_duration)]_vars

\* the left foot reported contact and the right foot did not: the left timer
\* restarted and the right one went on
OneFootContactWitness ==
    /\ mode = "mujoco"
    /\ last.feet_contact = <<FALSE, TRUE>>
    /\ time_since_last_left_contact = DT
    /\ time_since_last_right_contact > 2 * DT
    /\ missed.right > 1

\* C10 as stated: a tick that starts with the flag clear samples the
\* trajectory at the single time t for all its sub-steps.
SingleSamplePerTick ==
    [][~petage_de_gueule
        => \A k \in 1..Len(last'.samples) : last'.samples[k] = t]_vars

\* C10: a tick that starts with the flag clear samples the trajectory once
\* per sub-step, at t - DT + k * DT / REFINE for k = 0 .. REFINE - 1, and
\* solves after each sample; every tick, whatever the flag, makes exactly
\* REFINE solver calls.
RefineSubsteps ==
    [][/\ last'.solves = REFINE
       /\ ~petage_de_gueule
            => /\ last'.updates = REFINE
               /\ last'.samples = [k \in 1..REFINE |-> t - DT + (k - 1) * (DT \div REFINE)]
               /\ task_target' = TrajectoryPose(trajectory, t - (DT \div REFINE))
       /\ petage_de_gueule => last'.samples = <<>>]_vars

\* a tick took REFINE samples at different times, the last of them before t
RefineSubstepsWitness ==
    /\ ticks > 0
    /\ last.solves = REFINE
    /\ Len(last.samples) = REFINE
    /\ last.samples[1] = t - 2 * DT
    /\ last.samples[REFINE] = t - DT - (DT \div REFINE)

\* C11 as stated: when a solver sub-step finds no solution within the hard
\* limits, the robot state keeps the value it had before that sub-step, the
\* loop goes on, and the solve is tried again in the next tick.
InfeasibleIKRecovered ==
    [][\A k \in 0..(REFINE - 1) :
          SolveInfeasible(k)
              => /\ robot_q' = RefineUntil(0, k, [tasks |-> task_target, q |-> robot_q]).q
                 /\ pc' = "running"]_vars

\* C12: a tick whose planning time is t never starts before the wall clock
\* has reached start_t + t; after t is advanced the loop waits until
\* time.time() >= start_t + t; and the wait ends whenever the wall clock keeps
\* advancing.
RealTimePacing ==
    /\ [][t' # t => pacing.now >= t]_vars
    /\ [](pacing.pc = "tick" => pacing.now >= t)
    /\ (pacing.pc = "wait" /\ pc = "running") ~> (pacing.pc = "tick")

\* the loop slept and is about to start the tick of a planning time the wall
\* clock has reached
PacedTickWitness ==
    /\ pacing.pc = "tick"
    /\ pacing.slept
    /\ t > 0
    /\ pacing.now >= t
    /\ pacing.now < t + MaxSleep

\* C13: get() called when less than delay_ms has passed since the first
\* pushed timestamp returns ([0,0,0,0],[0,0,0]) and leaves both queues as they
\* are; otherwise it removes and returns the oldest queued (rot, ang_rot) pair,
\* and each queue is shorter by exactly one.
ImuGetContract ==
    [][(imu.pc = "pushed" /\ imu'.pc = "idle")
        => IF imu.now - imu.pushed[1].at < delay_ms * ImuTicksPerMs
           THEN /\ imu'.result = [kind |-> "zero", rot |-> ZeroRot, ang_rot |-> ZeroAngRot]
                /\ imu'.rot = imu.rot
                /\ imu'.ang_rot = imu.ang_rot
           ELSE /\ imu'.result = [kind |-> "value", rot |-> imu.rot[1],
                                  ang_rot |-> imu.ang_rot[1]]
                /\ imu'.rot = Tail(imu.rot)
                /\ imu'.ang_rot = Tail(imu.ang_rot)
                /\ Len(imu'.rot) = Len(imu.rot) - 1
                /\ Len(imu'.ang_rot) = Len(imu.ang_rot) - 1]_vars

\* get() returned zeros while the first two readings queued up, and has now
\* returned the second of them
ImuGetWitness ==
    /\ imu.pc = "idle"
    /\ imu.result.kind = "value"
    /\ imu.result.rot = Reading(2).rot
    /\ Len(imu.returned) = 2
    /\ Len(imu.pushed) = 4
    /\ Len(imu.rot) = 2

\* C14 as stated: every value get() returns is returned no earlier than
\* delay_ms after the timestamp it was pushed with.
ImuFixedLatency ==
    \A i \in 1..Len(imu.returned) :
        \A j \in 1..Len(imu.pushed) :
            imu.pushed[j].rot = imu.returned[i].rot
                => imu.returned[i].at >= imu.pushed[j].at + delay_ms * ImuTicksPerMs

\* C15: under any interleaving of pushes and gets, the values get() has
\* returned are the first of the values pushed, in the order pushed, none
\* twice and none left out, each rot with the ang_rot of its own push.
ImuStrictFifo ==
    /\ Len(imu.returned) <= Len(imu.pushed)
    /\ \A i \in 1..Len(imu.returned) :
          /\ imu.returned[i].rot = imu.pushed[i].rot
          /\ imu.returned[i].ang_rot = imu.pushed[i].ang_rot
    /\ Len(imu.rot) = Len(imu.pushed) - Len(imu.returned)
    /\ Len(imu.ang_rot) = Len(imu.rot)

\* three values came out while a fourth is queued, and a later get() found
\* the delay passed
ImuFifoWitness ==
    /\ Len(imu.returned) = 3
    /\ Len(imu.pushed) = 4
    /\ imu.result.kind = "value"
    /\ imu.result.rot = Reading(3).rot
    /\ imu.rot = <<Reading(4).rot>>

\* C16: the command as it stands at the end of a tick is what the planner is
\* configured with at the start of the next tick, before that tick's replan
\* test, so that every replan_supports call plans with the command of the end
\* of the previous tick.
CommandReachesPlanner ==
    [][ticks' # ticks
        => /\ planner_cfg' = Command
           /\ last'.replanned => supports' = replan_supports(Command, trajectory, t)]_vars

\* a replan planned with the key's command, in a tick that then changed the
\* command again
CommandReplanWitness ==
    /\ mode = "mujoco"
    /\ last.replanned
    /\ planner_cfg.d_x = d_x_key
    /\ d_x = 0
    /\ t > replan_timesteps * ParametersDt

\* what a safe-stop command handed to the actuator interface would be
SafeStop == [stop |-> TRUE]

\* C17 as stated: on an external interrupt the loop terminates, and before
\* exiting it hands the actuator interface a safe-stop command.
InterruptSafeStop ==
    [][(pc = "running" /\ pc' = "interrupted")
        => /\ ticks' = ticks
           /\ sent' = <<SafeStop>>]_vars

\* C18: one trajectory is current at every point of the loop.  Only the
\* replan step changes it, replacing it by walk.replan(new_supports,
\* old_trajectory, t) where new_supports is replan_supports of the same old
\* trajectory and the same t; every other step of a tick leaves the trajectory
\* and the supports as they are.
TrajectoryOwnership ==
    [][/\ last'.replanned
            => /\ supports' = replan_supports(planner_cfg', trajectory, t)
               /\ trajectory' = replan(supports', trajectory, t)
       /\ ~last'.replanned => UNCHANGED <<trajectory, supports>>
       /\ trajectory'.supports = supports']_vars

\* the trajectory has just been replaced a second time by one planned at the
\* time of the tick, on supports that differ from those of the initial plan
TrajectoryReplacedWitness ==
    /\ last.replanned
    /\ replans = 2
    /\ trajectory.planned_at = t - DT
    /\ trajectory.supports = supports
    /\ supports # make_supports(FootstepsPlan(planner_cfg, "left"),
                                TRUE, has_double_support, TRUE)

LatestModelSelected ==
    (eval_run.pc = "done" /\ eval_run.is_dir /\ eval_run.algo \in KnownAlgos)
        => IF Glob(eval_run.listing) = <<>>
           THEN eval_run.outcome = "No models found"
           ELSE /\ eval_run.outcome = "loaded"
                /\ \A k \in 1..Len(eval_run.models_paths) :
                      ModelId(eval_run.path_to_model) >= ModelId(eval_run.models_paths[k])

\* C23 as stated: in the pybullet mode the run begins with a warm-up of at
\* least one tick in which the base pose is forced to the initial pose, and
\* no tick forces it once the warm-up time has passed.
WarmupPoseEnforced ==
    [][/\ (mode = "pybullet" /\ ticks = 0) => last'.pose_forced
       /\ t >= 0 => ~last'.pose_forced]_vars

\* C24 as stated: consecutive control updates of the policy loop are
\* 1 / control_freq = 1/60 s of simulated time apart.
PolicyRateSixtyHz ==
    [][(policy_loop'.i = policy_loop.i + 1 /\ policy_loop.i > 0)
        => (policy_loop'.last_control - policy_loop.last_control) * control_freq
               = TimestepsPerSecond]_vars

\* C25 as stated: after any sequence of step and _get_obs calls,
\* joint_ctrl_history has exactly joint_history_length entries, and index 0
\* holds the control applied last, index 1 the one before it and index 2 the
\* oldest.
CtrlHistoryNewestFirst ==
    /\ Len(env.joint_ctrl_history) = joint_history_length
    /\ env.observed >= joint_history_length
          => \A k \in 1..joint_history_length : env.joint_ctrl_history[k] = env.recent[k]

\* C26 as stated: in each of the four run modes every variable a tick reads
\* was assigned before the loop, the two contact timers included, so that
\* every tick, the first included, completes without an error.
NoUninitialisedRead ==
    [][\A m \in Modes : mode = m => (pc' = "running" /\ ticks' = ticks + 1)]_vars

\* C27: driven as get_obs drives it, one push and then one get per control
\* step, get() is never called before the first push and never pops from an
\* empty queue; the two queues have the same length in every state; between
\* control steps the queue length is the number of get() calls that returned
\* zeros, and once the delay has passed a control step leaves it as it was.
ImuNeverUnderflows ==
    /\ [](/\ Len(imu.rot) = Len(imu.ang_rot)
          /\ imu.result.kind \notin {"TypeError", "IndexError"}
          /\ imu.pc = "pushed" => (imu.t0 # None /\ Len(imu.rot) >= 1)
          /\ imu.pc = "idle" => Len(imu.rot) = Len(imu.pushed) - Len(imu.returned))
    /\ [][(/\ imu.pc = "pushed"
           /\ imu'.pc = "idle"
           /\ imu.now - imu.pushed[1].at >= delay_ms * ImuTicksPerMs)
            => /\ imu'.result.kind = "value"
               /\ Len(imu'.rot) = Len(imu.rot) - 1
               /\ Len(imu'.rot) = Len(imu.pushed) - 1 - Len(imu.returned)]_vars

\* three control steps got zeros, and a fourth, after the delay, left the
\* queue at three
ImuSteadyQueueWitness ==
    /\ imu.pc = "idle"
    /\ Len(imu.rot) = 3
    /\ Len(imu.pushed) = 4
    /\ Len(imu.returned) = 1
    /\ imu.result.kind = "value"
    /\ imu.result.rot = Reading(1).rot

\* C28 as stated: under every interleaving of the key callback with the main
\* loop, when an episode is saved the five buffers all have length
\* max_timesteps, and the five lists have equal lengths at the end of every
\* pass through the loop: no sample is split between a saved episode and the
\* fresh buffers.
EpisodeBuffersConsistent ==
    /\ recorder.key.pc = "write"
          => \A k \in 1..Len(BufferNames) :
                Len(recorder.data_dict[k]) = recorder.key.max_timesteps
    /\ recorder.pc = "top"
          => \A k \in 1..Len(BufferNames) :
                Len(recorder.data_dict[k]) = Len(recorder.data_dict[1])

\* what C29 says of one step of an environment, e before it and f after it
CooldownStep(e, f, engine_ticks) ==
    /\ f.last.cooldown > 0
          => /\ f.last.applied = "init_pos"
             /\ f.ctrl = init_pos
             /\ f.last.reward = "zero"
             /\ f.last.ticked = 0
    /\ f.last.cooldown <= 0
          => /\ f.last.applied = "action"
             /\ f.last.reward = "weighted_sum"
             /\ f.last.ticked = engine_ticks
    /\ e.startup_cooldown <= 0 => f.startup_cooldown = e.startup_cooldown
    /\ f.startup_cooldown <= e.startup_cooldown
    /\ f.last.cooldown = f.startup_cooldown

\* C29: from a reset on, every step in which the cooldown is still positive
\* after its decrement ignores the action, drives init_pos, gives reward 0
\* and, in footsteps_env, does not tick the walk engine; once the cooldown is
\* <= 0 no step changes it, and every step applies the action and, in
\* footsteps_env, ticks the walk engine exactly once.  Only a reset sets the
\* cooldown back to 1.0.
CooldownOneWayPrefix ==
    [][/\ footsteps_env'.steps = footsteps_env.steps + 1
            => /\ CooldownStep(footsteps_env, footsteps_env', 1)
               /\ footsteps_env'.pwe.ticks = footsteps_env.pwe.ticks + footsteps_env'.last.ticked
       /\ env'.steps = env.steps + 1 => CooldownStep(env, env', 0)
       /\ footsteps_env'.startup_cooldown > footsteps_env.startup_cooldown
            => (footsteps_env'.resets = footsteps_env.resets + 1
                /\ footsteps_env'.startup_cooldown = 1000)
       /\ env'.startup_cooldown > env.startup_cooldown
            => (env'.resets = env.resets + 1 /\ env'.startup_cooldown = 1000)]_vars

\* after a reset the environment of footsteps_env.py went through its
\* cooldown and has since applied two actions and ticked the walk engine
\* twice
CooldownOverWitness ==
    /\ footsteps_env.resets = 1
    /\ footsteps_env.startup_cooldown <= 0
    /\ footsteps_env.last.applied = "action"
    /\ footsteps_env.pwe.ticks = 2
    /\ footsteps_env.steps = 1000 \div (FRAME_SKIP * timestep) + 2

\* C30: t starts at initial_delay and last_replan at 0, so that no tick
\* whose t does not exceed replan_timesteps * parameters.dt() replans, whatever
\* can_replan_supports answers; the trajectory of the initial walk.plan is
\* the current one throughout the warm-up, t in [initial_delay, 0].
NoReplanDuringWarmup ==
    /\ [][~Binary64SumGt(t, replan_timesteps * ParametersDt)
            => /\ ~last'.asked
               /\ ~last'.replanned
               /\ replans' = 0
               /\ last_replan' = 0
               /\ UNCHANGED <<trajectory, supports>>]_vars
    /\ [](t <= DT => (/\ replans = 0
                      /\ last_replan = 0
                      /\ trajectory = walk_plan(make_supports(
                                          FootstepsPlan(PlannerInit.cfg, "left"),
                                          TRUE, has_double_support, TRUE), 0)))

\* the tick of t = 0 is done: can_replan_supports would have allowed a
\* replan, and the initial trajectory is still the current one
WarmupDoneWitness ==
    /\ t = DT
    /\ pc = "running"
    /\ ticks = (0 - initial_delay) \div DT + 1
    /\ last.can
    /\ ~last.replanned
    /\ trajectory.planned_at = 0
    /\ replans = 0

====
